---- MODULE Spec2Model ----
(***************************************************************************)
(* Model of the scoring engine of ind_stock_scanner (src/score.py) and of  *)
(* the records it is called on (src/utils.py, src/multibagger.py).         *)
(*                                                                         *)
(* A metric value is a record [t, m, e, u]:                                *)
(*   t = "num"   the float m * 10^e, plus u units in the last place left   *)
(*               by a rounded float product (u is 0 for a literal);        *)
(*   t = "None", "nan", "inf", "ninf"  Python None, float NaN, +inf, -inf; *)
(*   t = "str", "list"  a non-numeric object (np.isnan raises TypeError).  *)
(* Scores are Python ints.  percentage_score is kept as the exact rational *)
(* [n, d] of the float expression (total / max) * 100.                     *)
(***************************************************************************)
EXTENDS Integers, Sequences, FiniteSets, TLC

VARIABLES stock, result, ops, pc, calls,
          task, heap,
          pos, penny_stocks_results, csv, json

\* The evaluations that run side by side, and the dict objects they made.
taskvars == <<task, heap>>

\* The scanner's loop position and list, the file it saves and the
\* converter's output.
scanvars == <<pos, penny_stocks_results, csv, json>>

vars == <<stock, result, ops, pc, calls, taskvars, scanvars>>

\* No file has been written.
NoFile == [written |-> FALSE, headers |-> <<>>, rows |-> <<>>]

\* Nothing runs side by side and no scan is under way.
Idle ==
    /\ task = <<>>
    /\ heap = <<>>
    /\ pos = 0
    /\ penny_stocks_results = <<>>
    /\ csv = NoFile
    /\ json = NoFile

\* ------------------------------------------------------------------ bounds

\* Number of calls of the scoring function in a run of the scanner.
MaxCalls == 3

\* Number of evaluations that run side by side.
NumTasks == 2

\* Number of symbols in the scanner's list.
MaxSymbols == 3

\* Number of edits (metric or qualitative assignments) made to a base record.
MaxOps == 1

\* ------------------------------------------------------------------ values

Num(m, e) == [t |-> "num", m |-> m, e |-> e, u |-> 0]
None == [t |-> "None", m |-> 0, e |-> 0, u |-> 0]
NaN == [t |-> "nan", m |-> 0, e |-> 0, u |-> 0]
Inf == [t |-> "inf", m |-> 0, e |-> 0, u |-> 0]
NegInf == [t |-> "ninf", m |-> 0, e |-> 0, u |-> 0]
Str == [t |-> "str", m |-> 0, e |-> 0, u |-> 0]
List == [t |-> "list", m |-> 0, e |-> 0, u |-> 0]

FloatKinds == {"num", "nan", "inf", "ninf"}

RECURSIVE Pow10(_)
Pow10(k) == IF k = 0 THEN 1 ELSE 10 * Pow10(k - 1)

RECURSIVE Digits(_)
Digits(n) == IF n < 10 THEN 1 ELSE 1 + Digits(n \div 10)

CmpInt(a, b) == IF a < b THEN -1 ELSE IF a > b THEN 1 ELSE 0

Abs(n) == IF n < 0 THEN -n ELSE n

Sign(n) == CmpInt(n, 0)

\* Order of two positive decimals m1 * 10^e1 and m2 * 10^e2.
CmpPos(m1, e1, m2, e2) ==
    LET g1 == Digits(m1) + e1
        g2 == Digits(m2) + e2
    IN  IF g1 # g2 THEN CmpInt(g1, g2)
        ELSE IF e1 >= e2 THEN CmpInt(m1 * Pow10(e1 - e2), m2)
        ELSE CmpInt(m1, m2 * Pow10(e2 - e1))

\* Order of two finite floats: -1, 0 or 1.
Cmp(a, b) ==
    LET s1 == Sign(a.m)
        s2 == Sign(b.m)
        exact == IF s1 # s2 THEN CmpInt(s1, s2)
                 ELSE IF s1 = 0 THEN 0
                 ELSE IF s1 > 0 THEN CmpPos(a.m, a.e, b.m, b.e)
                 ELSE CmpPos(-b.m, b.e, -a.m, a.e)
    IN  IF exact # 0 THEN exact ELSE CmpInt(a.u, b.u)

\* Variant: a <= b where the code has a < b.
LT_inclusive(a, b) ==
    IF a.t = "nan" \/ b.t = "nan" THEN FALSE
    ELSE IF a.t = "ninf" THEN TRUE
    ELSE IF a.t = "inf" THEN b.t = "inf"
    ELSE IF b.t = "inf" THEN TRUE
    ELSE IF b.t = "ninf" THEN FALSE
    ELSE Cmp(a, b) <= 0

\* Python's a < b on floats (every comparison with NaN is False).
LT(a, b) ==
    IF a.t = "nan" \/ b.t = "nan" THEN FALSE
    ELSE IF a.t = "ninf" THEN b.t # "ninf"
    ELSE IF a.t = "inf" THEN FALSE
    ELSE IF b.t = "inf" THEN TRUE
    ELSE IF b.t = "ninf" THEN FALSE
    ELSE Cmp(a, b) < 0

GT(a, b) == LT(b, a)

\* Python's a == b on floats.
EQ(a, b) ==
    IF a.t = "nan" \/ b.t = "nan" THEN FALSE
    ELSE IF a.t = "num" /\ b.t = "num" THEN Cmp(a, b) = 0
    ELSE a.t = b.t

\* Units in the last place by which the double product fl(x) * 100 differs
\* from the decimal product: 0.07 * 100 is 7.000000000000001; the other
\* literals of the model give the exact double.
FloatResidue100(m, e) == IF m = 7 /\ e = -2 THEN 1 ELSE 0

\* Variant: the conversion to a percentage is forgotten.
Mul100_identity(x) == x

\* Python's x * 100.
Mul100(x) ==
    IF x.t = "num"
    THEN IF x.m = 0 THEN x
         ELSE [t |-> "num", m |-> x.m, e |-> x.e + 2, u |-> FloatResidue100(x.m, x.e)]
    ELSE x

\* ------------------------------------------------------------- rationals

RECURSIVE Gcd(_, _)
Gcd(a, b) == IF b = 0 THEN a ELSE Gcd(b, a % b)

\* The rational n / d (d > 0) in lowest terms.
Rat(n, d) ==
    LET g == Gcd(Abs(n), d)
    IN  [n |-> n \div g, d |-> d \div g]

\* Python's a / b on ints (true division), b > 0.
TrueDiv(a, b) == Rat(a, b)

RatMulInt(r, k) == Rat(r.n * k, r.d)

RatLE(r, s) == r.n * s.d <= s.n * r.d

\* ------------------------------------------------------------- dicts

\* A Python dict with insertion order: a sequence of [k, v] with distinct k.
DictKeys(d) == {d[i].k : i \in DOMAIN d}

DictHas(d, key) == \E i \in DOMAIN d : d[i].k = key

DictGet(d, key) == d[CHOOSE i \in DOMAIN d : d[i].k = key].v

\* Variant: the mapping is kept as a list of pairs, an assignment appends.
DictSet_append(d, key, value) == Append(d, [k |-> key, v |-> value])

\* d[key] = value
DictSet(d, key, value) ==
    IF DictHas(d, key)
    THEN [i \in DOMAIN d |-> IF d[i].k = key THEN [k |-> key, v |-> value] ELSE d[i]]
    ELSE Append(d, [k |-> key, v |-> value])

RECURSIVE SumValues(_)
\* sum(d.values())
SumValues(d) == IF d = <<>> THEN 0 ELSE d[1].v + SumValues(Tail(d))

\* ------------------------------------------------------------- records

\* The 21 metric names multibagger_score_two_dim reads, in source order.
ScoredKeys ==
    << "market_cap", "stock_price", "eps_growth_5y", "roe", "roce",
       "operating_margin", "net_margin", "de_ratio", "interest_coverage",
       "current_ratio", "free_cash_flow", "revenue_growth_5y",
       "profit_growth_5y", "cash_flow_growth", "pe_ratio", "peg_ratio",
       "pb_ratio", "ev_ebitda", "liquidity", "promoter_holding",
       "promoter_holding_growth" >>

ScoredKeySet == {ScoredKeys[i] : i \in DOMAIN ScoredKeys}

\* Scalar keys of the skeleton that the scoring function never reads.
ExtraScalarKeys ==
    { "eps", "gross_margin", "quick_ratio", "cash_conversion_ratio", "revenue",
      "profit", "operating_leverage", "beta", "dividend_yield" }

\* List-valued keys of the skeleton.
QuarterlyKeys ==
    { "quarterly_revenue", "quarterly_profit", "quarterly_eps",
      "quarterly_revenue_growth", "quarterly_profit_growth",
      "quarterly_eps_growth", "quarterly_de_ratio", "quarterly_current_ratio",
      "quarterly_interest_coverage" }

AllKeys == ScoredKeySet \cup ExtraScalarKeys \cup QuarterlyKeys

\* A key the mapping does not hold.
Missing == [t |-> "missing", m |-> 0, e |-> 0, u |-> 0]

\* A metrics mapping is a function on AllKeys; Missing marks an absent key.
EmptyMetrics == [k \in AllKeys |-> Missing]

create_quantitative_skeleton ==
    [k \in AllKeys |->
        IF k \in QuarterlyKeys THEN List
        ELSE IF k = "cash_flow_growth" THEN Missing
        ELSE NaN]

\* quantitative.get(key)
MetricsGet(quantitative, key) ==
    IF quantitative[key].t = "missing" THEN None ELSE quantitative[key]

\* stock.get('quantitative', {})
StockQuantitative(s) ==
    IF "quantitative" \in s.sections THEN s.quantitative ELSE EmptyMetrics

\* stock.get('qualitative', {})
StockQualitative(s) ==
    IF "qualitative" \in s.sections THEN s.qualitative ELSE <<>>

\* ------------------------------------------------------------- scoring

\* np.isnan(val) raises TypeError on an object that is not a number.
IsNanRaises(val) == val.t \notin FloatKinds

\* Variant: np.isnan is applied before the test for None.
get_val_raises_without_none_check(quantitative, key) ==
    IsNanRaises(MetricsGet(quantitative, key))

\* Variant: every value of the mapping is put through np.isnan.
get_val_raises_any_key(quantitative, key) ==
    \E k \in AllKeys :
        LET val == MetricsGet(quantitative, k)
        IN  val.t # "None" /\ IsNanRaises(val)

\* get_val raises: val is not None and np.isnan(val) raises.
get_val_raises(quantitative, key) ==
    LET val == MetricsGet(quantitative, key)
    IN  val.t # "None" /\ IsNanRaises(val)

Zero == Num(0, 0)

\* Variant: one global default, 0, whatever the factor.
get_val_global_default(quantitative, key, default) ==
    LET val == MetricsGet(quantitative, key)
    IN  IF val.t = "None" \/ val.t = "nan" THEN Num(0, 0) ELSE val

\* Variant: only None is replaced, NaN reaches the comparisons.
get_val_nan_passthrough(quantitative, key, default) ==
    LET val == MetricsGet(quantitative, key)
    IN  IF val.t = "None" THEN default ELSE val

\* Variant: a negative value is taken as no value.
get_val_negative_as_missing(quantitative, key, default) ==
    LET val == MetricsGet(quantitative, key)
    IN  IF val.t = "None" \/ val.t = "nan" \/ val.t = "ninf"
           \/ (val.t = "num" /\ val.m < 0)
        THEN default ELSE val

\* get_val(key, default), when it does not raise.
get_val(quantitative, key, default) ==
    LET val == MetricsGet(quantitative, key)
    IN  IF val.t = "None" \/ val.t = "nan" THEN default ELSE val

\* Variant: the bounds of the market_cap tiers are inclusive.
score_market_cap_inclusive(quantitative) ==
    LET mc == get_val(quantitative, "market_cap", Zero)
    IN  IF ~GT(mc, Num(100, 9)) THEN 5
        ELSE IF ~GT(mc, Num(500, 9)) THEN 4
        ELSE IF ~GT(mc, Num(2000, 9)) THEN 3
        ELSE IF ~GT(mc, Num(5000, 9)) THEN 2
        ELSE 0

score_market_cap(quantitative) ==
    LET mc == get_val(quantitative, "market_cap", Zero)
    IN  IF LT(mc, Num(100, 9)) THEN 5
        ELSE IF LT(mc, Num(500, 9)) THEN 4
        ELSE IF LT(mc, Num(2000, 9)) THEN 3
        ELSE IF LT(mc, Num(5000, 9)) THEN 2
        ELSE 0

\* Variant: stock_price given the five tiers of market_cap.
score_stock_price_five_tiers(quantitative) ==
    LET sp == get_val(quantitative, "stock_price", Zero)
    IN  IF LT(sp, Num(500, 0)) THEN 5
        ELSE IF LT(sp, Num(1000, 0)) THEN 4
        ELSE IF LT(sp, Num(2000, 0)) THEN 3
        ELSE IF LT(sp, Num(2500, 0)) THEN 2
        ELSE 0

score_stock_price(quantitative) ==
    LET sp == get_val(quantitative, "stock_price", Zero)
    IN  IF LT(sp, Num(500, 0)) THEN 5
        ELSE IF LT(sp, Num(1000, 0)) THEN 4
        ELSE IF LT(sp, Num(2000, 0)) THEN 3
        ELSE 0

score_eps_growth_5y(quantitative) ==
    LET eps_growth == Mul100(get_val(quantitative, "eps_growth_5y", Zero))
    IN  IF GT(eps_growth, Num(20, 0)) THEN 5
        ELSE IF GT(eps_growth, Num(10, 0)) THEN 3
        ELSE 0

score_roe(quantitative) ==
    LET roe == Mul100(get_val(quantitative, "roe", Zero))
    IN  IF GT(roe, Num(15, 0)) THEN 5
        ELSE IF GT(roe, Num(10, 0)) THEN 3
        ELSE 0

score_roce(quantitative) ==
    LET roce == Mul100(get_val(quantitative, "roce", Zero))
    IN  IF GT(roce, Num(15, 0)) THEN 5
        ELSE IF GT(roce, Num(10, 0)) THEN 3
        ELSE 0

score_operating_margin(quantitative) ==
    LET op_margin == Mul100(get_val(quantitative, "operating_margin", Zero))
    IN  IF GT(op_margin, Num(20, 0)) THEN 5
        ELSE IF GT(op_margin, Num(10, 0)) THEN 3
        ELSE 0

score_net_margin(quantitative) ==
    LET net_margin == Mul100(get_val(quantitative, "net_margin", Zero))
    IN  IF GT(net_margin, Num(15, 0)) THEN 5
        ELSE IF GT(net_margin, Num(7, 0)) THEN 3
        ELSE 0

\* Variant: de_ratio defaults to 0 like its neighbours.
score_de_ratio_default_zero(quantitative) ==
    LET de_ratio == get_val(quantitative, "de_ratio", Zero)
    IN  IF LT(de_ratio, Num(5, -1)) THEN 5
        ELSE IF LT(de_ratio, Num(1, 0)) THEN 3
        ELSE 0

score_de_ratio(quantitative) ==
    LET de_ratio == get_val(quantitative, "de_ratio", Inf)
    IN  IF LT(de_ratio, Num(5, -1)) THEN 5
        ELSE IF LT(de_ratio, Num(1, 0)) THEN 3
        ELSE 0

score_interest_coverage(quantitative) ==
    LET interest_coverage == get_val(quantitative, "interest_coverage", Zero)
    IN  IF GT(interest_coverage, Num(3, 0)) THEN 5
        ELSE IF GT(interest_coverage, Num(15, -1)) THEN 3
        ELSE 0

score_current_ratio(quantitative) ==
    LET current_ratio == get_val(quantitative, "current_ratio", Zero)
    IN  IF GT(current_ratio, Num(15, -1)) THEN 5
        ELSE IF GT(current_ratio, Num(12, -1)) THEN 3
        ELSE 0

\* Variant: a positive free cash flow counts double.
score_free_cash_flow_double(quantitative) ==
    LET free_cash_flow == get_val(quantitative, "free_cash_flow", Zero)
    IN  IF GT(free_cash_flow, Zero) THEN 10 ELSE 0

score_free_cash_flow(quantitative) ==
    LET free_cash_flow == get_val(quantitative, "free_cash_flow", Zero)
    IN  IF GT(free_cash_flow, Zero) THEN 5 ELSE 0

score_revenue_growth_5y(quantitative) ==
    LET revenue_growth == Mul100(get_val(quantitative, "revenue_growth_5y", Zero))
    IN  IF GT(revenue_growth, Num(15, 0)) THEN 5
        ELSE IF GT(revenue_growth, Num(10, 0)) THEN 3
        ELSE 0

score_profit_growth_5y(quantitative) ==
    LET profit_growth == Mul100(get_val(quantitative, "profit_growth_5y", Zero))
    IN  IF GT(profit_growth, Num(20, 0)) THEN 5
        ELSE IF GT(profit_growth, Num(10, 0)) THEN 3
        ELSE 0

\* The source does not multiply cash_flow_growth by 100.
score_cash_flow_growth(quantitative) ==
    LET cash_flow_growth == get_val(quantitative, "cash_flow_growth", Zero)
    IN  IF GT(cash_flow_growth, Num(15, 0)) THEN 5
        ELSE IF GT(cash_flow_growth, Num(10, 0)) THEN 3
        ELSE 0

\* Variant: pe_ratio compared as a higher-is-better factor.
score_pe_ratio_higher_is_better(quantitative) ==
    LET pe == get_val(quantitative, "pe_ratio", Inf)
    IN  IF GT(pe, Num(25, 0)) THEN 5
        ELSE IF GT(pe, Num(15, 0)) THEN 3
        ELSE 0

score_pe_ratio(quantitative) ==
    LET pe == get_val(quantitative, "pe_ratio", Inf)
    IN  IF LT(pe, Num(15, 0)) THEN 5
        ELSE IF LT(pe, Num(25, 0)) THEN 3
        ELSE 0

score_peg_ratio(quantitative) ==
    LET peg == get_val(quantitative, "peg_ratio", Inf)
    IN  IF LT(peg, Num(1, 0)) THEN 5
        ELSE IF LT(peg, Num(2, 0)) THEN 3
        ELSE 0

score_pb_ratio(quantitative) ==
    LET pb == get_val(quantitative, "pb_ratio", Inf)
    IN  IF LT(pb, Num(15, -1)) THEN 5
        ELSE IF LT(pb, Num(25, -1)) THEN 3
        ELSE 0

score_ev_ebitda(quantitative) ==
    LET ev_ebitda == get_val(quantitative, "ev_ebitda", Inf)
    IN  IF LT(ev_ebitda, Num(10, 0)) THEN 5
        ELSE IF LT(ev_ebitda, Num(15, 0)) THEN 3
        ELSE 0

score_liquidity(quantitative) ==
    LET liquidity == get_val(quantitative, "liquidity", Zero)
    IN  IF GT(liquidity, Num(100000, 0)) THEN 5
        ELSE IF GT(liquidity, Num(50000, 0)) THEN 3
        ELSE 0

score_promoter_holding(quantitative) ==
    LET promoter_holding == get_val(quantitative, "promoter_holding", Zero)
    IN  IF GT(promoter_holding, Num(50, 0)) THEN 5
        ELSE IF GT(promoter_holding, Num(30, 0)) THEN 3
        ELSE 0

\* Variant: no middle tier for an unchanged promoter holding.
score_promoter_holding_growth_binary(quantitative) ==
    LET promoter_holding_growth == get_val(quantitative, "promoter_holding_growth", Zero)
    IN  IF GT(promoter_holding_growth, Zero) THEN 5 ELSE 0

score_promoter_holding_growth(quantitative) ==
    LET promoter_holding_growth == get_val(quantitative, "promoter_holding_growth", Zero)
    IN  IF GT(promoter_holding_growth, Zero) THEN 5
        ELSE IF EQ(promoter_holding_growth, Zero) THEN 3
        ELSE 0

\* The value assigned to factor_scores[key] by the quantitative section.
FactorScore(quantitative, key) ==
    CASE key = "market_cap" -> score_market_cap(quantitative)
      [] key = "stock_price" -> score_stock_price(quantitative)
      [] key = "eps_growth_5y" -> score_eps_growth_5y(quantitative)
      [] key = "roe" -> score_roe(quantitative)
      [] key = "roce" -> score_roce(quantitative)
      [] key = "operating_margin" -> score_operating_margin(quantitative)
      [] key = "net_margin" -> score_net_margin(quantitative)
      [] key = "de_ratio" -> score_de_ratio(quantitative)
      [] key = "interest_coverage" -> score_interest_coverage(quantitative)
      [] key = "current_ratio" -> score_current_ratio(quantitative)
      [] key = "free_cash_flow" -> score_free_cash_flow(quantitative)
      [] key = "revenue_growth_5y" -> score_revenue_growth_5y(quantitative)
      [] key = "profit_growth_5y" -> score_profit_growth_5y(quantitative)
      [] key = "cash_flow_growth" -> score_cash_flow_growth(quantitative)
      [] key = "pe_ratio" -> score_pe_ratio(quantitative)
      [] key = "peg_ratio" -> score_peg_ratio(quantitative)
      [] key = "pb_ratio" -> score_pb_ratio(quantitative)
      [] key = "ev_ebitda" -> score_ev_ebitda(quantitative)
      [] key = "liquidity" -> score_liquidity(quantitative)
      [] key = "promoter_holding" -> score_promoter_holding(quantitative)
      [] key = "promoter_holding_growth" -> score_promoter_holding_growth(quantitative)

RECURSIVE AssignFactors_skip_missing(_, _, _)
\* Variant: a factor whose key the mapping does not hold gets no entry.
AssignFactors_skip_missing(factor_scores, quantitative, i) ==
    IF i > Len(ScoredKeys) THEN factor_scores
    ELSE AssignFactors_skip_missing(
            IF quantitative[ScoredKeys[i]].t = "missing" THEN factor_scores
            ELSE DictSet(factor_scores, ScoredKeys[i],
                         FactorScore(quantitative, ScoredKeys[i])),
            quantitative, i + 1)

RECURSIVE AssignFactors(_, _, _)
\* The assignments factor_scores[key] = ... of lines 17-80, from the i-th on.
AssignFactors(factor_scores, quantitative, i) ==
    IF i > Len(ScoredKeys) THEN factor_scores
    ELSE AssignFactors(
            DictSet(factor_scores, ScoredKeys[i], FactorScore(quantitative, ScoredKeys[i])),
            quantitative, i + 1)

\* Variant: factor_scores is one dict of the module, not emptied between calls.
QuantitativeSection_module_dict(quantitative) ==
    AssignFactors(IF calls = <<>> THEN <<>>
                  ELSE calls[Len(calls)].output.factor_scores,
                  quantitative, 1)

\* factor_scores after the quantitative section.
QuantitativeSection(quantitative) == AssignFactors(<<>>, quantitative, 1)

RECURSIVE QualitativeSection_clamped(_, _)
\* Variant: a qualitative value is clamped to the 0..5 scale.
QualitativeSection_clamped(factor_scores, qualitative) ==
    IF qualitative = <<>> THEN factor_scores
    ELSE QualitativeSection_clamped(
            DictSet(factor_scores, qualitative[1].k,
                    IF qualitative[1].v > 5 THEN 5
                    ELSE IF qualitative[1].v < 0 THEN 0
                    ELSE qualitative[1].v),
            Tail(qualitative))

RECURSIVE QualitativeSection_setdefault(_, _)
\* Variant: factor_scores.setdefault(factor, value), a score already there
\* is kept.
QualitativeSection_setdefault(factor_scores, qualitative) ==
    IF qualitative = <<>> THEN factor_scores
    ELSE QualitativeSection_setdefault(
            IF DictHas(factor_scores, qualitative[1].k) THEN factor_scores
            ELSE DictSet(factor_scores, qualitative[1].k, qualitative[1].v),
            Tail(qualitative))

RECURSIVE QualitativeSection(_, _)
\* for factor, value in qualitative.items(): factor_scores[factor] = value
QualitativeSection(factor_scores, qualitative) ==
    IF qualitative = <<>> THEN factor_scores
    ELSE QualitativeSection(
            DictSet(factor_scores, qualitative[1].k, qualitative[1].v),
            Tail(qualitative))

\* Variant: only the quantitative entries are summed.
TotalScore_quantitative_only(factor_scores) ==
    SumValues(SubSeq(factor_scores, 1, Len(ScoredKeys)))

\* total_score = sum(factor_scores.values())
TotalScore(factor_scores) == SumValues(factor_scores)

\* max_possible_score = len(factor_scores) * 5
MaxPossibleScore(factor_scores) == Len(factor_scores) * 5

\* Variant: the ratio is returned without the factor 100.
PercentageScore_unscaled(total_score, max_possible_score) ==
    IF max_possible_score > 0
    THEN TrueDiv(total_score, max_possible_score)
    ELSE Rat(0, 1)

\* Variant: the operands of the division are exchanged.
PercentageScore_inverted(total_score, max_possible_score) ==
    IF max_possible_score > 0 /\ total_score > 0
    THEN RatMulInt(TrueDiv(max_possible_score, total_score), 100)
    ELSE Rat(0, 1)

\* (total_score / max_possible_score) * 100 if max_possible_score > 0 else 0
PercentageScore(total_score, max_possible_score) ==
    IF max_possible_score > 0
    THEN RatMulInt(TrueDiv(total_score, max_possible_score), 100)
    ELSE Rat(0, 1)

NoResult ==
    [state |-> "none", total_score |-> 0, max_possible_score |-> 0,
     percentage_score |-> Rat(0, 1), factor_scores |-> <<>>]

Raised == [NoResult EXCEPT !.state = "error"]

\* The call multibagger_score_two_dim(s): the returned triple (with the local
\* max_possible_score), or Raised when an exception leaves the function.
multibagger_score_two_dim(s) ==
    LET quantitative == StockQuantitative(s)
        qualitative == StockQualitative(s)
        factor_scores == QualitativeSection(QuantitativeSection(quantitative), qualitative)
        total_score == TotalScore(factor_scores)
        max_possible_score == MaxPossibleScore(factor_scores)
    IN  IF \E i \in DOMAIN ScoredKeys : get_val_raises(quantitative, ScoredKeys[i])
        THEN Raised
        ELSE [state |-> "ok",
              total_score |-> total_score,
              max_possible_score |-> max_possible_score,
              percentage_score |-> PercentageScore(total_score, max_possible_score),
              factor_scores |-> factor_scores]

\* ------------------------------------------------------------- inputs

\* Values a fetcher may store that are not finite numbers.
SpecialValues == {None, NaN, Inf, NegInf, Str}

\* Finite values tried for each metric: below, on and above each threshold.
NumericValues(key) ==
    CASE key = "market_cap" ->
            {Num(-1, 9), Num(50, 9), Num(100, 9), Num(300, 9), Num(500, 9),
             Num(1000, 9), Num(2000, 9), Num(3000, 9), Num(5000, 9), Num(6000, 9)}
      [] key = "stock_price" ->
            {Num(-1, 0), Num(300, 0), Num(500, 0), Num(700, 0), Num(1000, 0),
             Num(1500, 0), Num(2000, 0), Num(2500, 0)}
      [] key \in {"eps_growth_5y", "operating_margin", "profit_growth_5y"} ->
            {Num(-5, -2), Num(5, -2), Num(10, -2), Num(12, -2), Num(20, -2), Num(25, -2)}
      [] key \in {"roe", "roce", "revenue_growth_5y"} ->
            {Num(-5, -2), Num(5, -2), Num(10, -2), Num(12, -2), Num(15, -2), Num(18, -2)}
      [] key = "net_margin" ->
            {Num(-5, -2), Num(5, -2), Num(7, -2), Num(10, -2), Num(15, -2), Num(18, -2)}
      [] key = "de_ratio" ->
            {Num(-2, -1), Num(3, -1), Num(49999, -5), Num(5, -1), Num(7, -1),
             Num(1, 0), Num(15, -1)}
      [] key = "interest_coverage" ->
            {Num(-1, 0), Num(1, 0), Num(15, -1), Num(2, 0), Num(3, 0), Num(4, 0)}
      [] key = "current_ratio" ->
            {Num(8, -1), Num(12, -1), Num(13, -1), Num(15, -1), Num(2, 0)}
      [] key = "free_cash_flow" ->
            {Num(-1, 6), Num(0, 0), Num(1, 6)}
      [] key = "cash_flow_growth" ->
            {Num(12, -2), Num(20, -2), Num(10, 0), Num(12, 0), Num(15, 0), Num(20, 0)}
      [] key = "pe_ratio" ->
            {Num(-8, 0), Num(12, 0), Num(15, 0), Num(20, 0), Num(25, 0), Num(30, 0)}
      [] key = "peg_ratio" ->
            {Num(-1, 0), Num(5, -1), Num(1, 0), Num(15, -1), Num(2, 0), Num(3, 0)}
      [] key = "pb_ratio" ->
            {Num(-1, 0), Num(1, 0), Num(15, -1), Num(2, 0), Num(25, -1), Num(3, 0)}
      [] key = "ev_ebitda" ->
            {Num(-2, 0), Num(8, 0), Num(10, 0), Num(12, 0), Num(15, 0), Num(20, 0)}
      [] key = "liquidity" ->
            {Num(0, 0), Num(50000, 0), Num(75000, 0), Num(100000, 0), Num(200000, 0)}
      [] key = "promoter_holding" ->
            {Num(0, 0), Num(30, 0), Num(40, 0), Num(50, 0), Num(55, 0)}
      [] key = "promoter_holding_growth" ->
            {Num(-15, -1), Num(0, 0), Num(2, 0)}
      [] OTHER -> {Num(15, -1)}

\* The least and the greatest of the finite values of a metric.
ExtremeValues(key) ==
    {v \in NumericValues(key) :
        \/ \A w \in NumericValues(key) : Cmp(v, w) <= 0
        \/ \A w \in NumericValues(key) : Cmp(v, w) >= 0}

\* Unscored keys a fetcher is seen to rewrite.
ExtraEditKeys == {"eps", "quarterly_revenue"}

EditKeys == ScoredKeySet \cup ExtraEditKeys

\* What metrics[key] is set to while a record is built.
MetricValues(key) ==
    IF key \in ScoredKeySet THEN SpecialValues \cup ExtremeValues(key)
    ELSE IF key \in QuarterlyKeys THEN {List}
    ELSE {NaN} \cup NumericValues(key)

\* Qualitative factor names: two free names and one that is also a metric name.
QualKeys == {"moat", "management", "pe_ratio"}

\* Qualitative scores: inside and outside the 0..5 scale.
QualValues == {-1, 0, 5, 7}

\* The worked example of the specification.
ExampleMetrics ==
    [EmptyMetrics EXCEPT !["market_cap"] = Num(50, 9),
                         !["stock_price"] = Num(300, 0),
                         !["roe"] = Num(18, -2),
                         !["de_ratio"] = Num(3, -1),
                         !["pe_ratio"] = Num(12, 0),
                         !["promoter_holding"] = Num(55, 0)]

KeyIndex(key) == CHOOSE i \in DOMAIN ScoredKeys : ScoredKeys[i] = key

\* Every metric absent, the three ways of being absent taking turns.
MixedAbsent ==
    [k \in AllKeys |->
        IF k \notin ScoredKeySet THEN Missing
        ELSE CASE KeyIndex(k) % 3 = 0 -> Missing
               [] KeyIndex(k) % 3 = 1 -> None
               [] OTHER -> NaN]

\* No metric a finite number: None, NaN, +inf, -inf and missing taking turns.
MixedNonFinite ==
    [k \in AllKeys |->
        IF k \notin ScoredKeySet THEN Missing
        ELSE CASE KeyIndex(k) % 5 = 0 -> Inf
               [] KeyIndex(k) % 5 = 1 -> NegInf
               [] KeyIndex(k) % 5 = 2 -> NaN
               [] KeyIndex(k) % 5 = 3 -> None
               [] OTHER -> Missing]

\* Factors for which a smaller value scores higher.
LowerIsBetter ==
    {"market_cap", "stock_price", "de_ratio", "pe_ratio", "peg_ratio",
     "pb_ratio", "ev_ebitda"}

\* Every scored metric at the end of its table that scores highest.
BestMetrics ==
    [k \in AllKeys |->
        IF k \notin ScoredKeySet THEN Missing
        ELSE CHOOSE v \in NumericValues(k) :
                \A w \in NumericValues(k) :
                    IF k \in LowerIsBetter THEN Cmp(v, w) <= 0 ELSE Cmp(v, w) >= 0]

\* Every scored metric at the end of its table that scores lowest.
WorstMetrics ==
    [k \in AllKeys |->
        IF k \notin ScoredKeySet THEN Missing
        ELSE CHOOSE v \in NumericValues(k) :
                \A w \in NumericValues(k) :
                    IF k \in LowerIsBetter THEN Cmp(v, w) >= 0 ELSE Cmp(v, w) <= 0]

Stock(sections, quantitative, qualitative) ==
    [sections |-> sections, quantitative |-> quantitative, qualitative |-> qualitative]

Both == {"quantitative", "qualitative"}

\* The records a call starts from: no section at all, the fetcher's skeleton
\* with the scanner's empty qualitative mapping, the worked example,
\* records mixing the kinds of absent value with qualitative entries, and
\* the records whose metrics all score highest and all score lowest.
BaseStocks ==
    { Stock({}, EmptyMetrics, <<>>),
      Stock(Both, create_quantitative_skeleton, <<>>),
      Stock({"quantitative"}, ExampleMetrics, <<>>),
      Stock(Both, MixedAbsent,
            <<[k |-> "pe_ratio", v |-> 7], [k |-> "moat", v |-> -1]>>),
      Stock(Both, MixedNonFinite, <<[k |-> "moat", v |-> 4]>>),
      Stock({"quantitative"}, BestMetrics, <<>>),
      Stock(Both, WorstMetrics, <<>>) }

\* ------------------------------------------------------------- actions

Init ==
    /\ stock \in BaseStocks
    /\ result = NoResult
    /\ ops = 0
    /\ pc = "build"
    /\ calls = <<>>
    /\ Idle

\* metrics[key] = value, as the fetcher fills the record.
SetMetric(key, value) ==
    /\ pc = "build"
    /\ ops < MaxOps
    /\ stock' = [stock EXCEPT !.sections = @ \cup {"quantitative"},
                              !.quantitative[key] = value]
    /\ ops' = ops + 1
    /\ UNCHANGED <<result, pc, calls, taskvars, scanvars>>

\* del metrics[key]
DelMetric(key) ==
    /\ pc = "build"
    /\ ops < MaxOps
    /\ "quantitative" \in stock.sections
    /\ stock.quantitative[key].t # "missing"
    /\ stock' = [stock EXCEPT !.quantitative[key] = Missing]
    /\ ops' = ops + 1
    /\ UNCHANGED <<result, pc, calls, taskvars, scanvars>>

\* qualitative[key] = value, by the caller.
SetQualitative(key, value) ==
    /\ pc = "build"
    /\ ops < MaxOps
    /\ stock' = [stock EXCEPT !.sections = @ \cup {"qualitative"},
                              !.qualitative = DictSet(@, key, value)]
    /\ ops' = ops + 1
    /\ UNCHANGED <<result, pc, calls, taskvars, scanvars>>

\* score, percentage_score, breakdown = multibagger_score_two_dim(stock)
Score ==
    /\ pc = "build"
    /\ result' = multibagger_score_two_dim(stock)
    /\ pc' = "done"
    /\ UNCHANGED <<stock, ops, calls, taskvars, scanvars>>

Next ==
    \/ \E key \in EditKeys : \E value \in MetricValues(key) : SetMetric(key, value)
    \/ \E key \in EditKeys : DelMetric(key)
    \/ \E key \in QualKeys : \E value \in QualValues : SetQualitative(key, value)
    \/ Score

Spec == Init /\ [][Next]_vars

\* ------------------------------------------------------------- properties

\* The call has returned its triple.
Returned == pc = "done" /\ result.state = "ok"

Q == StockQuantitative(stock)

Ql == StockQualitative(stock)

\* The metric is unknown: missing key, None or NaN.
Absent(quantitative, key) == quantitative[key].t \in {"missing", "None", "nan"}

AllAbsent == \A key \in ScoredKeySet : Absent(Q, key)

Entries(d, key) == {i \in DOMAIN d : d[i].k = key}

RECURSIVE SumOver(_, _)
\* The sum of the values of d at the positions S.
SumOver(d, S) ==
    IF S = {} THEN 0
    ELSE LET i == CHOOSE j \in S : TRUE
         IN  d[i].v + SumOver(d, S \ {i})

\* C1 as stated: when all 21 metrics are absent (missing key, None or NaN)
\* and the qualitative mapping is empty, total_score is 10, market_cap and
\* stock_price score 5 each, the other 19 factors score 0 and
\* percentage_score is 10/105*100 (= 200/21).
C1_Original ==
    (pc = "done" /\ AllAbsent /\ Ql = <<>>) =>
        /\ result.state = "ok"
        /\ result.total_score = 10
        /\ \A key \in ScoredKeySet :
              /\ DictHas(result.factor_scores, key)
              /\ DictGet(result.factor_scores, key) =
                    IF key \in {"market_cap", "stock_price"} THEN 5 ELSE 0
        /\ result.percentage_score = [n |-> 200, d |-> 21]

\* C1 amended: when all 21 metrics are absent and the qualitative mapping is
\* empty, market_cap and stock_price score 5 each, promoter_holding_growth
\* scores 3 (its default 0 meets the == 0 tier), the other 18 factors score 0,
\* total_score is 13 and percentage_score is 13/105*100 (= 260/21).
C1_AllAbsentScoresThirteen ==
    (pc = "done" /\ AllAbsent /\ Ql = <<>>) =>
        /\ result.state = "ok"
        /\ result.total_score = 13
        /\ \A key \in ScoredKeySet :
              /\ DictHas(result.factor_scores, key)
              /\ DictGet(result.factor_scores, key) =
                    IF key \in {"market_cap", "stock_price"} THEN 5
                    ELSE IF key = "promoter_holding_growth" THEN 3
                    ELSE 0
        /\ result.percentage_score = [n |-> 260, d |-> 21]

\* All metrics absent in all three ways at once, no qualitative entry, scored.
C1_Witness ==
    /\ Returned /\ AllAbsent /\ Ql = <<>>
    /\ \E key \in ScoredKeySet : Q[key].t = "missing"
    /\ \E key \in ScoredKeySet : Q[key].t = "None"
    /\ \E key \in ScoredKeySet : Q[key].t = "nan"

ExampleKeys ==
    {"market_cap", "stock_price", "roe", "de_ratio", "pe_ratio", "promoter_holding"}

IsExample ==
    /\ \A key \in ExampleKeys : Q[key] = ExampleMetrics[key]
    /\ \A key \in ScoredKeySet \ ExampleKeys : Absent(Q, key)
    /\ Ql = <<>>

\* C2 as stated: the worked example (market_cap 50e9, stock_price 300,
\* roe 0.18, de_ratio 0.3, pe_ratio 12, promoter_holding 55, all else absent,
\* nothing qualitative) scores those six factors 5 and the other 15 factors 0:
\* total_score 30, percentage_score 30/105*100 (= 200/7).
C2_Original ==
    (pc = "done" /\ IsExample) =>
        /\ result.state = "ok"
        /\ \A key \in ScoredKeySet :
              /\ DictHas(result.factor_scores, key)
              /\ DictGet(result.factor_scores, key) =
                    IF key \in ExampleKeys THEN 5 ELSE 0
        /\ result.total_score = 30
        /\ result.percentage_score = [n |-> 200, d |-> 7]

\* C2 amended: the worked example scores its six given factors 5 each,
\* promoter_holding_growth 3 (absent, default 0, == 0 tier) and the other 14
\* factors 0: total_score 33, percentage_score 33/105*100 (= 220/7).
C2_WorkedExample ==
    (pc = "done" /\ IsExample) =>
        /\ result.state = "ok"
        /\ \A key \in ScoredKeySet :
              /\ DictHas(result.factor_scores, key)
              /\ DictGet(result.factor_scores, key) =
                    IF key \in ExampleKeys THEN 5
                    ELSE IF key = "promoter_holding_growth" THEN 3
                    ELSE 0
        /\ result.total_score = 33
        /\ result.percentage_score = [n |-> 220, d |-> 7]

\* The worked example scored, one of its absent metrics held as NaN or None.
C2_Witness ==
    /\ Returned /\ IsExample
    /\ \E key \in ScoredKeySet \ ExampleKeys : Q[key].t \in {"None", "nan"}

\* Every metric is absent, None, NaN, +inf, -inf or a finite number.
NumericOrAbsent ==
    \A key \in ScoredKeySet :
        Q[key].t \in {"missing", "None", "nan", "inf", "ninf", "num"}

\* C3: the function is total on numeric input: when every one of the 21
\* metrics is absent, None, NaN, +inf, -inf or finite (the sections may be
\* missing), the call raises nothing and returns a well-formed triple.
C3_TotalOnNumericInput ==
    (pc = "done" /\ NumericOrAbsent) =>
        /\ result.state = "ok"
        /\ result.total_score \in Int
        /\ result.percentage_score.d > 0
        /\ Len(result.factor_scores) >= Len(ScoredKeys)

\* A record holding None, NaN, +inf, -inf and a missing key has been scored.
C3_Witness ==
    /\ Returned /\ NumericOrAbsent
    /\ \A t \in {"missing", "None", "nan", "inf", "ninf"} :
          \E key \in ScoredKeySet : Q[key].t = t

\* The metrics mapping with key removed.
WithoutMetric(quantitative, key) == [quantitative EXCEPT ![key] = Missing]

\* The breakdown entry of factor key when the quantitative section gives it
\* the score v: v, unless a qualitative entry of the same name replaces it.
EntryFor(key, v) == IF DictHas(Ql, key) THEN DictGet(Ql, key) ELSE v

\* C4 as stated: a metric that is missing, None, NaN, +inf or -inf scores as
\* the same metric absent.
C4_Original ==
    Returned =>
        \A key \in ScoredKeySet :
            Q[key].t \in {"missing", "None", "nan", "inf", "ninf"} =>
                DictGet(result.factor_scores, key) =
                    EntryFor(key, FactorScore(WithoutMetric(Q, key), key))

\* C4 amended: a metric that is missing, None or NaN is replaced by its
\* factor's default, so it scores as the same metric absent; +inf and -inf
\* are not replaced but compared as they are: +inf scores 0 on market_cap,
\* stock_price and the lower-is-better ratios and 5 on every other factor,
\* -inf scores 5 on the former and 0 on the latter.
C4_AbsentTakesDefault ==
    Returned =>
        \A key \in ScoredKeySet :
            /\ Absent(Q, key) =>
                  DictGet(result.factor_scores, key) =
                      EntryFor(key, FactorScore(WithoutMetric(Q, key), key))
            /\ Q[key].t = "inf" =>
                  DictGet(result.factor_scores, key) =
                      EntryFor(key, IF key \in LowerIsBetter THEN 0 ELSE 5)
            /\ Q[key].t = "ninf" =>
                  DictGet(result.factor_scores, key) =
                      EntryFor(key, IF key \in LowerIsBetter THEN 5 ELSE 0)

\* market_cap = +inf has scored 0 and de_ratio = NaN has scored its default.
C4_Witness ==
    /\ Returned
    /\ Q["market_cap"].t = "inf"
    /\ DictGet(result.factor_scores, "market_cap") = 0
    /\ \E key \in ScoredKeySet : Q[key].t = "nan" /\ ~DictHas(Ql, key)
    /\ \E key \in ScoredKeySet : Q[key].t = "None" /\ ~DictHas(Ql, key)

\* C5: the returned breakdown holds exactly one entry for each of the 21
\* quantitative factor names, whichever metrics are present.
C5_OneEntryPerFactor ==
    Returned =>
        \A key \in ScoredKeySet :
            Cardinality(Entries(result.factor_scores, key)) = 1

\* Scored with a missing metric, a finite metric and a qualitative entry
\* named like a metric.
C5_Witness ==
    /\ Returned
    /\ \E key \in ScoredKeySet : Q[key].t = "missing"
    /\ \E key \in ScoredKeySet : Q[key].t = "num"
    /\ \E key \in ScoredKeySet : DictHas(Ql, key)

\* C6: total_score is the sum of all values of the returned breakdown, and
\* the maximum possible score is 5 times the number of its entries.
C6_TotalIsSumOfBreakdown ==
    Returned =>
        /\ result.total_score =
              SumOver(result.factor_scores, DOMAIN result.factor_scores)
        /\ result.max_possible_score =
              5 * Cardinality(DOMAIN result.factor_scores)

\* Scored with qualitative entries that change the sum.
C6_Witness ==
    /\ Returned
    /\ Len(Ql) >= 2
    /\ result.total_score #
          SumOver(result.factor_scores, 1..Len(ScoredKeys))

\* C7: percentage_score is 100 * total_score / (5 * number of entries); it
\* is 0 when there are no entries, and nothing is divided by zero.
C7_PercentageFormula ==
    Returned =>
        /\ Len(result.factor_scores) > 0
        /\ result.percentage_score =
              Rat(100 * result.total_score, 5 * Len(result.factor_scores))
        /\ PercentageScore(result.total_score, 0) = Rat(0, 1)

\* Scored to a percentage that is not a whole number, qualitative entries in.
C7_Witness ==
    /\ Returned
    /\ Ql # <<>>
    /\ result.percentage_score.d # 1
    /\ result.total_score # 0

\* Qualitative entries whose name is none of the 21 factor names.
FreeEntries(qualitative) ==
    {i \in DOMAIN qualitative : qualitative[i].k \notin ScoredKeySet}

\* C8 as stated: the breakdown has 21 entries plus one per supplied
\* qualitative entry, whatever the qualitative key names.
C8_Original ==
    Returned => Len(result.factor_scores) = 21 + Len(Ql)

\* C8 amended: the breakdown has 21 entries plus one per supplied qualitative
\* entry whose key is none of the 21 factor names (an entry named like a
\* factor replaces that factor's entry and adds none).
C8_FactorCount ==
    Returned =>
        /\ Len(result.factor_scores) = 21 + Cardinality(FreeEntries(Ql))
        /\ result.max_possible_score = 5 * (21 + Cardinality(FreeEntries(Ql)))

\* Scored with a qualitative entry named like a factor and one that is not.
C8_Witness ==
    /\ Returned
    /\ FreeEntries(Ql) # {}
    /\ FreeEntries(Ql) # DOMAIN Ql

RECURSIVE SumOfKeys(_, _)
\* The sum of the breakdown entries of the keys S.
SumOfKeys(d, S) ==
    IF S = {} THEN 0
    ELSE LET key == CHOOSE x \in S : TRUE
         IN  DictGet(d, key) + SumOfKeys(d, S \ {key})

\* C9: every qualitative key appears in the breakdown with exactly the value
\* supplied, values outside 0..5 included, and enters total_score as given.
C9_QualitativeVerbatim ==
    Returned =>
        /\ \A i \in DOMAIN Ql :
              /\ Cardinality(Entries(result.factor_scores, Ql[i].k)) = 1
              /\ DictGet(result.factor_scores, Ql[i].k) = Ql[i].v
        /\ result.total_score =
              SumOver(Ql, DOMAIN Ql)
              + SumOfKeys(result.factor_scores,
                          DictKeys(result.factor_scores) \ DictKeys(Ql))

\* Scored with a qualitative value above 5 and one below 0.
C9_Witness ==
    /\ Returned
    /\ \E i \in DOMAIN Ql : Ql[i].v > 5
    /\ \E i \in DOMAIN Ql : Ql[i].v < 0

\* The lower-is-better ratios, whose default is +inf.
RatioKeys == {"de_ratio", "pe_ratio", "peg_ratio", "pb_ratio", "ev_ebitda"}

\* C10: an absent de_ratio, pe_ratio, peg_ratio, pb_ratio or ev_ebitda is
\* scored 0, an absent market_cap or stock_price is scored 5, whatever the
\* other metrics hold; that score is the breakdown entry unless a qualitative
\* entry of the same name replaces it.
C10_AbsentDefaults ==
    Returned =>
        \A key \in RatioKeys \cup {"market_cap", "stock_price"} :
            Absent(Q, key) =>
                /\ FactorScore(Q, key) = IF key \in RatioKeys THEN 0 ELSE 5
                /\ DictGet(result.factor_scores, key) =
                      EntryFor(key, IF key \in RatioKeys THEN 0 ELSE 5)

\* Scored with all seven of those metrics absent and another metric finite.
C10_Witness ==
    /\ Returned
    /\ \A key \in RatioKeys \cup {"market_cap", "stock_price"} : Absent(Q, key)
    /\ \E key \in ScoredKeySet : Q[key].t = "num" /\ DictGet(result.factor_scores, key) = 5

\* ------------------------------------------------- one metric at a time

\* What one metric is given when its thresholds are walked: every finite
\* value of its table, and the values that are not finite numbers.
TierValues(key) == NumericValues(key) \cup {None, NaN, Inf, NegInf}

\* A record of BaseStocks with one scored metric set to one value.
TierInit ==
    /\ \E base \in BaseStocks : \E key \in ScoredKeySet : \E value \in TierValues(key) :
          stock = [base EXCEPT !.sections = @ \cup {"quantitative"},
                               !.quantitative[key] = value]
    /\ result = NoResult
    /\ ops = 0
    /\ pc = "build"
    /\ calls = <<>>
    /\ Idle

SpecTier == TierInit /\ [][Score]_vars

\* The power of ten in which a metric's finite values are all whole numbers.
UnitExp(key) ==
    CASE key = "market_cap" -> 9
      [] key = "de_ratio" -> -5
      [] OTHER -> -2

\* The finite value v of the metric, as a whole number of its units.
InUnits(key, v) == v.m * 10^(v.e - UnitExp(key))

\* Whole number n in the units of the metric.
Whole(key, n) == n * 10^(0 - UnitExp(key))

\* Tenths n in the units of the metric.
Tenths(key, n) == n * 10^(-1 - UnitExp(key))

ThreeTierHigher(x, hi, lo) == IF x > hi THEN 5 ELSE IF x > lo THEN 3 ELSE 0

ThreeTierLower(x, lo, hi) == IF x < lo THEN 5 ELSE IF x < hi THEN 3 ELSE 0

PercentKeys ==
    {"eps_growth_5y", "roe", "roce", "operating_margin", "net_margin",
     "revenue_growth_5y", "profit_growth_5y"}

HigherThreeTierKeys ==
    PercentKeys \cup {"interest_coverage", "current_ratio", "liquidity",
                      "promoter_holding"}

LowerThreeTierKeys == {"de_ratio", "pe_ratio", "peg_ratio", "pb_ratio", "ev_ebitda"}

\* The score the threshold table gives the finite value v of a three-tier
\* factor; a percentage factor is v * 100 in exact arithmetic, which in
\* units of a hundredth is v's whole number times 100.
TableScore(key, v) ==
    LET x == InUnits(key, v)
        W(n) == Whole(key, n)
        T(n) == Tenths(key, n)
    IN  CASE key \in {"eps_growth_5y", "operating_margin", "profit_growth_5y"} ->
                ThreeTierHigher(x * 100, W(20), W(10))
          [] key \in {"roe", "roce", "revenue_growth_5y"} ->
                ThreeTierHigher(x * 100, W(15), W(10))
          [] key = "net_margin" -> ThreeTierHigher(x * 100, W(15), W(7))
          [] key = "interest_coverage" -> ThreeTierHigher(x, W(3), T(15))
          [] key = "current_ratio" -> ThreeTierHigher(x, T(15), T(12))
          [] key = "liquidity" -> ThreeTierHigher(x, W(100000), W(50000))
          [] key = "promoter_holding" -> ThreeTierHigher(x, W(50), W(30))
          [] key = "de_ratio" -> ThreeTierLower(x, T(5), W(1))
          [] key = "pe_ratio" -> ThreeTierLower(x, W(15), W(25))
          [] key = "peg_ratio" -> ThreeTierLower(x, W(1), W(2))
          [] key = "pb_ratio" -> ThreeTierLower(x, T(15), T(25))
          [] key = "ev_ebitda" -> ThreeTierLower(x, W(10), W(15))

\* C11: a three-tier factor with a finite value scores by strict comparison
\* against its two thresholds, the percentage factors after multiplication
\* by 100, so that a value on a threshold does not earn that threshold's tier.
C11_StrictThreeTier ==
    Returned =>
        \A key \in HigherThreeTierKeys \cup LowerThreeTierKeys :
            Q[key].t = "num" =>
                /\ FactorScore(Q, key) = TableScore(key, Q[key])
                /\ DictGet(result.factor_scores, key) =
                      EntryFor(key, TableScore(key, Q[key]))

\* Scored with net_margin 0.07, on its lower threshold of 7 per cent.
C11_Witness ==
    /\ Returned
    /\ Q["net_margin"] = Num(7, -2)
    /\ DictGet(result.factor_scores, "net_margin") = 3

\* C12: cash_flow_growth is scored as a percentage like revenue_growth_5y:
\* multiplied by 100, then 5 above 15, 3 above 10, else 0; 0.20 scores 5
\* and 0.12 scores 3.
C12_CashFlowGrowthScaled ==
    Returned =>
        LET v == Q["cash_flow_growth"]
        IN  v.t = "num" =>
                DictGet(result.factor_scores, "cash_flow_growth") =
                    ThreeTierHigher(InUnits("cash_flow_growth", v) * 100,
                                    Whole("cash_flow_growth", 15),
                                    Whole("cash_flow_growth", 10))

\* Scored with cash_flow_growth 0.20.
C12_Witness ==
    /\ Returned
    /\ Q["cash_flow_growth"] = Num(20, -2)
    /\ DictGet(result.factor_scores, "cash_flow_growth") = 0

\* The score the tier table gives a finite market_cap or stock_price.
TierScore(key, v) ==
    LET x == InUnits(key, v)
        W(n) == Whole(key, n)
    IN  CASE key = "market_cap" ->
                IF x < 100 THEN 5
                ELSE IF x < 500 THEN 4
                ELSE IF x < 2000 THEN 3
                ELSE IF x < 5000 THEN 2
                ELSE 0
          [] key = "stock_price" ->
                IF x < W(500) THEN 5
                ELSE IF x < W(1000) THEN 4
                ELSE IF x < W(2000) THEN 3
                ELSE 0

\* C13: a finite market_cap scores 5, 4, 3, 2 or 0 by the first of the bounds
\* 100e9, 500e9, 2000e9, 5000e9 it is strictly below, and a finite
\* stock_price 5, 4, 3 or 0 by the bounds 500, 1000, 2000; a value on a bound
\* falls into the next lower tier.
C13_MultiTierFactors ==
    Returned =>
        \A key \in {"market_cap", "stock_price"} :
            Q[key].t = "num" =>
                /\ FactorScore(Q, key) = TierScore(key, Q[key])
                /\ DictGet(result.factor_scores, key) =
                      EntryFor(key, TierScore(key, Q[key]))

\* Scored with market_cap on its first bound: 4, not 5.
C13_Witness ==
    /\ Returned
    /\ Q["market_cap"] = Num(100, 9)
    /\ DictGet(result.factor_scores, "market_cap") = 4

\* C14 as stated: de_ratio exactly 0.5 scores 0, and 0.49999 scores 5.
C14_Original ==
    Returned =>
        /\ Q["de_ratio"] = Num(5, -1) => DictGet(result.factor_scores, "de_ratio") = 0
        /\ Q["de_ratio"] = Num(49999, -5) =>
              DictGet(result.factor_scores, "de_ratio") = 5

\* C14: de_ratio exactly 0.5 scores 3, the middle tier, and not 5; 0.49999
\* scores 5.
C14_DeRatioBoundary ==
    Returned =>
        /\ Q["de_ratio"] = Num(5, -1) => DictGet(result.factor_scores, "de_ratio") = 3
        /\ Q["de_ratio"] = Num(49999, -5) =>
              DictGet(result.factor_scores, "de_ratio") = 5

\* Scored with de_ratio exactly 0.5.
C14_Witness ==
    /\ Returned
    /\ Q["de_ratio"] = Num(5, -1)
    /\ DictGet(result.factor_scores, "de_ratio") # 5

\* The scores a quantitative factor can be given.
ScoreRange(key) ==
    CASE key = "market_cap" -> {0, 2, 3, 4, 5}
      [] key = "stock_price" -> {0, 3, 4, 5}
      [] OTHER -> {0, 3, 5}

\* C15: a breakdown entry of a quantitative factor that no qualitative key
\* replaces is one of 0, 2, 3, 4, 5 for market_cap, one of 0, 3, 4, 5 for
\* stock_price and one of 0, 3, 5 for every other factor.
C15_ScoreValueSets ==
    Returned =>
        \A i \in DOMAIN result.factor_scores :
            LET entry == result.factor_scores[i]
            IN  (entry.k \in ScoredKeySet /\ ~DictHas(Ql, entry.k)) =>
                    entry.v \in ScoreRange(entry.k)

\* Scored without a qualitative key of a factor's name, market_cap in the
\* tier only it has and promoter_holding_growth in its middle tier.
C15_Witness ==
    /\ Returned
    /\ \A key \in ScoredKeySet : ~DictHas(Ql, key)
    /\ DictGet(result.factor_scores, "market_cap") = 2
    /\ DictGet(result.factor_scores, "promoter_holding_growth") = 3

\* C16 as stated: free_cash_flow and promoter_holding_growth each score 0 or
\* 5 and never 3, whether the value is present, absent or NaN.
C16_Original ==
    Returned =>
        /\ DictGet(result.factor_scores, "free_cash_flow") \in {0, 5}
        /\ DictGet(result.factor_scores, "promoter_holding_growth") \in {0, 5}

\* C16: free_cash_flow scores 0 or 5 and never 3; promoter_holding_growth
\* scores 5 when positive, 3 when zero or absent and 0 when negative.
C16_BinaryAndSign ==
    Returned =>
        /\ DictGet(result.factor_scores, "free_cash_flow") \in {0, 5}
        /\ LET v == Q["promoter_holding_growth"]
               positive == v.t = "inf" \/ (v.t = "num" /\ v.m > 0)
               zero == Absent(Q, "promoter_holding_growth") \/ (v.t = "num" /\ v.m = 0)
           IN  DictGet(result.factor_scores, "promoter_holding_growth") =
                   IF positive THEN 5 ELSE IF zero THEN 3 ELSE 0

\* Scored with promoter_holding_growth present and zero, and with a
\* free_cash_flow that is absent.
C16_Witness ==
    /\ Returned
    /\ Q["promoter_holding_growth"] = Num(0, 0)
    /\ Absent(Q, "free_cash_flow")
    /\ DictGet(result.factor_scores, "promoter_holding_growth") = 3
    /\ DictGet(result.factor_scores, "free_cash_flow") = 0

\* The call's record with one metric given another value.
WithMetric(s, key, value) == [s EXCEPT !.quantitative[key] = value]

\* C17: with the other inputs fixed, a greater finite value of a metric
\* scores no lower on a higher-is-better factor and no higher on market_cap,
\* stock_price, de_ratio, pe_ratio, peg_ratio, pb_ratio and ev_ebitda, and
\* total_score moves the same way or not at all.
C17_MonotoneSteps ==
    Returned =>
        \A key \in ScoredKeySet :
            Q[key].t = "num" =>
                \A w \in NumericValues(key) :
                    InUnits(key, Q[key]) <= InUnits(key, w) =>
                        LET other == multibagger_score_two_dim(WithMetric(stock, key, w))
                            s1 == FactorScore(Q, key)
                            s2 == FactorScore(WithMetric(stock, key, w).quantitative, key)
                        IN  IF key \in LowerIsBetter
                            THEN s1 >= s2 /\ result.total_score >= other.total_score
                            ELSE s1 <= s2 /\ result.total_score <= other.total_score

\* Scored with a pe_ratio in the middle tier, between values that score 5
\* and values that score 0.
C17_Witness ==
    /\ Returned
    /\ Q["pe_ratio"] = Num(20, 0)
    /\ FactorScore(Q, "pe_ratio") = 3
    /\ FactorScore(WithMetric(stock, "pe_ratio", Num(12, 0)).quantitative, "pe_ratio") = 5
    /\ FactorScore(WithMetric(stock, "pe_ratio", Num(30, 0)).quantitative, "pe_ratio") = 0

\* ------------------------------------------------- one call after another

\* The worked example with the unscored keys the fetcher also fills.
ExampleWithExtras ==
    [ExampleMetrics EXCEPT !["eps"] = Num(15, -1),
                           !["beta"] = NaN,
                           !["gross_margin"] = Str,
                           !["quarterly_revenue"] = List]

\* The records the scanner passes, one per symbol: the base records, the
\* worked example with qualitative entries and the worked example with
\* unscored keys.
CallStocks ==
    BaseStocks \cup
        { Stock(Both, ExampleMetrics,
                <<[k |-> "moat", v |-> 5], [k |-> "management", v |-> 0]>>),
          Stock({"quantitative"}, ExampleWithExtras, <<>>) }

\* An object the caller holds before the call: stock[part].
InputObject(part) == [kind |-> "input", part |-> part]

\* Variant: factor_scores = stock.get('qualitative', {}), the caller's own
\* mapping taken as the breakdown without a copy.
FactorScoresObject_qualitative(n) == InputObject("qualitative")

\* Variant: factor_scores is one dict of the module, shared by every call.
FactorScoresObject_module(n) == [kind |-> "new", call |-> 0]

\* factor_scores = {}: the dict object made by the n-th call.
FactorScoresObject(n) == [kind |-> "new", call |-> n]

\* The record after the call: every assignment of the function is
\* factor_scores[key] = ..., so it lands in the object factor_scores names.
InputsAfter(s, object, factor_scores) ==
    IF object = InputObject("qualitative") /\ "qualitative" \in s.sections
    THEN [s EXCEPT !.qualitative = factor_scores]
    ELSE s

CallsInit ==
    /\ stock \in CallStocks
    /\ result = NoResult
    /\ ops = 0
    /\ pc = "build"
    /\ calls = <<>>
    /\ Idle

\* score, percentage_score, breakdown = multibagger_score_two_dim(stock),
\* noted with the record as it was before and as it is after.
Call ==
    /\ pc = "build"
    /\ ops < MaxCalls
    /\ LET r == multibagger_score_two_dim(stock)
           object == FactorScoresObject(ops + 1)
           after == InputsAfter(stock, object, r.factor_scores)
       IN  /\ result' = r
           /\ stock' = after
           /\ calls' = Append(calls, [input |-> stock, after |-> after,
                                      output |-> r, object |-> object])
    /\ ops' = ops + 1
    /\ pc' = "done"
    /\ UNCHANGED <<taskvars, scanvars>>

\* The scanner's loop moves on to the record of the next symbol.
NextStock ==
    /\ pc = "done"
    /\ ops < MaxCalls
    /\ \E s \in CallStocks : stock' = s
    /\ pc' = "build"
    /\ UNCHANGED <<result, ops, calls, taskvars, scanvars>>

CallsNext == Call \/ NextStock

SpecCalls == CallsInit /\ [][CallsNext]_vars

\* C18: of two calls whose breakdowns have the same number of entries, the
\* one with the smaller or equal total_score has the smaller or equal
\* percentage_score.
C18_PercentageMonotone ==
    \A i, j \in DOMAIN calls :
        LET a == calls[i].output
            b == calls[j].output
        IN  (/\ a.state = "ok"
             /\ b.state = "ok"
             /\ Len(a.factor_scores) = Len(b.factor_scores)
             /\ a.total_score <= b.total_score) =>
                RatLE(a.percentage_score, b.percentage_score)

\* Two calls with as many entries and different totals, and two with as many
\* entries and the same total.
C18_Witness ==
    /\ \E i, j \in DOMAIN calls :
          /\ Len(calls[i].output.factor_scores) = Len(calls[j].output.factor_scores)
          /\ calls[i].output.total_score < calls[j].output.total_score
          /\ ~RatLE(calls[j].output.percentage_score, calls[i].output.percentage_score)
    /\ \E i, j \in DOMAIN calls :
          /\ i # j
          /\ calls[i].input # calls[j].input
          /\ Len(calls[i].output.factor_scores) = Len(calls[j].output.factor_scores)
          /\ calls[i].output.total_score = calls[j].output.total_score

\* The two mappings the function reads from the record of a call.
Mappings(s) == <<StockQuantitative(s), StockQualitative(s)>>

C20_NoSideEffects ==
    \A i \in DOMAIN calls :
        /\ calls[i].after = calls[i].input
        /\ calls[i].object \notin {InputObject("quantitative"), InputObject("qualitative")}
        /\ \A j \in DOMAIN calls : j # i => calls[j].object # calls[i].object

\* A call on a record with metrics and qualitative entries has returned a
\* breakdown that holds more than the qualitative mapping does, and another
\* call has followed it.
C20_Witness ==
    \E i, j \in DOMAIN calls :
        /\ i < j
        /\ calls[i].output.state = "ok"
        /\ calls[i].input.sections = Both
        /\ calls[i].input.qualitative # <<>>
        /\ calls[i].output.factor_scores # calls[i].input.qualitative

\* ------------------------------------------------- calls side by side

\* The records of the instruments evaluated side by side; one holds a
\* metric that is not a number.
TaskStocks ==
    << Stock(Both, ExampleMetrics,
             <<[k |-> "moat", v |-> 5], [k |-> "management", v |-> 0]>>),
       Stock(Both, MixedAbsent,
             <<[k |-> "pe_ratio", v |-> 7], [k |-> "moat", v |-> -1]>>),
       Stock({"quantitative"}, [ExampleMetrics EXCEPT !["peg_ratio"] = Str], <<>>),
       Stock(Both, create_quantitative_skeleton, <<>>) >>

NoObject == [kind |-> "none", call |-> 0]

\* Every evaluation is about to start, each on the record of its own
\* instrument.
TasksInit ==
    /\ \E first \in 0 .. Len(TaskStocks) - 1 :
          task = [t \in 1 .. NumTasks |->
                    [pc |-> "start",
                     stock |-> TaskStocks[((t + first) % Len(TaskStocks)) + 1],
                     i |-> 1,
                     object |-> NoObject,
                     result |-> NoResult]]
    /\ heap = <<>>
    /\ stock = Stock({}, EmptyMetrics, <<>>)
    /\ result = NoResult
    /\ ops = 0
    /\ pc = "tasks"
    /\ calls = <<>>
    /\ pos = 0
    /\ penny_stocks_results = <<>>
    /\ csv = NoFile
    /\ json = NoFile

\* factor_scores = {}; quantitative = stock.get('quantitative', {})
TaskEnter(t) ==
    /\ task[t].pc = "start"
    /\ LET object == FactorScoresObject(t)
       IN  /\ heap' = [o \in DOMAIN heap \cup {object} |->
                          IF o = object THEN <<>> ELSE heap[o]]
           /\ task' = [task EXCEPT ![t].pc = "quantitative", ![t].object = object]
    /\ UNCHANGED <<stock, result, ops, pc, calls, scanvars>>

\* The i-th statement factor_scores[key] = ..., or the TypeError of get_val.
TaskAssign(t) ==
    /\ task[t].pc = "quantitative"
    /\ LET quantitative == StockQuantitative(task[t].stock)
           key == ScoredKeys[task[t].i]
       IN  IF get_val_raises(quantitative, key)
           THEN /\ task' = [task EXCEPT ![t].pc = "done", ![t].result = Raised]
                /\ UNCHANGED heap
           ELSE /\ heap' = [heap EXCEPT ![task[t].object] =
                               DictSet(@, key, FactorScore(quantitative, key))]
                /\ task' = IF task[t].i = Len(ScoredKeys)
                           THEN [task EXCEPT ![t].pc = "qualitative", ![t].i = 1]
                           ELSE [task EXCEPT ![t].i = @ + 1]
    /\ UNCHANGED <<stock, result, ops, pc, calls, scanvars>>

\* One turn of the loop: factor_scores[factor] = value
TaskQualitative(t) ==
    /\ task[t].pc = "qualitative"
    /\ LET qualitative == StockQualitative(task[t].stock)
       IN  /\ task[t].i <= Len(qualitative)
           /\ heap' = [heap EXCEPT ![task[t].object] =
                          DictSet(@, qualitative[task[t].i].k, qualitative[task[t].i].v)]
    /\ task' = [task EXCEPT ![t].i = @ + 1]
    /\ UNCHANGED <<stock, result, ops, pc, calls, scanvars>>

\* total_score, max_possible_score, percentage_score and the return.
TaskReturn(t) ==
    /\ task[t].pc = "qualitative"
    /\ task[t].i > Len(StockQualitative(task[t].stock))
    /\ LET factor_scores == heap[task[t].object]
           total_score == TotalScore(factor_scores)
           max_possible_score == MaxPossibleScore(factor_scores)
       IN  task' = [task EXCEPT
                       ![t].pc = "done",
                       ![t].result =
                           [state |-> "ok",
                            total_score |-> total_score,
                            max_possible_score |-> max_possible_score,
                            percentage_score |->
                                PercentageScore(total_score, max_possible_score),
                            factor_scores |-> factor_scores]]
    /\ UNCHANGED <<heap, stock, result, ops, pc, calls, scanvars>>

TasksNext ==
    \/ \E t \in DOMAIN task : TaskEnter(t)
    \/ \E t \in DOMAIN task : TaskAssign(t)
    \/ \E t \in DOMAIN task : TaskQualitative(t)
    \/ \E t \in DOMAIN task : TaskReturn(t)

SpecTasks == TasksInit /\ [][TasksNext]_vars

\* C21: under every interleaving, an evaluation that has ended has returned
\* what the call returns when run alone on its record (or raised as it
\* does), and no two evaluations write to the same breakdown object.
C21_TasksDoNotInterfere ==
    /\ \A t \in DOMAIN task :
          task[t].pc = "done" =>
              task[t].result = multibagger_score_two_dim(task[t].stock)
    /\ \A t, u \in DOMAIN task :
          (t # u /\ task[t].pc # "start" /\ task[u].pc # "start") =>
              task[t].object # task[u].object

\* One evaluation has returned its triple while another, on a record with
\* other qualitative entries, is part of the way through its assignments.
C21_Witness ==
    \E t, u \in DOMAIN task :
        /\ t # u
        /\ task[t].pc = "done"
        /\ task[t].result.state = "ok"
        /\ task[u].pc = "quantitative"
        /\ task[u].i > 1
        /\ heap[task[u].object] # <<>>
        /\ StockQualitative(task[u].stock) # StockQualitative(task[t].stock)

\* Every qualitative value is on the 0..5 scale and no qualitative key is
\* the name of a quantitative factor.
QualitativeInScale ==
    \A i \in DOMAIN Ql : Ql[i].v \in 0 .. 5 /\ Ql[i].k \notin ScoredKeySet

\* C22: when every qualitative value lies in 0..5 and no qualitative key
\* names a quantitative factor, total_score lies between 0 and 5 times the
\* number of breakdown entries and percentage_score between 0 and 100; with
\* no qualitative entry total_score lies in 0..105.
C22_BoundedScore ==
    (Returned /\ QualitativeInScale) =>
        /\ 0 <= result.total_score
        /\ result.total_score <= 5 * Len(result.factor_scores)
        /\ RatLE(Rat(0, 1), result.percentage_score)
        /\ RatLE(result.percentage_score, Rat(100, 1))
        /\ Ql = <<>> => result.total_score \in 0 .. 105

\* Scored with every metric in its top tier and a qualitative entry of 5:
\* the upper bounds are met.
C22_Witness ==
    /\ Returned
    /\ QualitativeInScale
    /\ Ql # <<>>
    /\ result.total_score = 5 * Len(result.factor_scores)
    /\ result.percentage_score = Rat(100, 1)

\* C24: a qualitative key that is the name of a quantitative factor has the
\* qualitative value as its one breakdown entry, the breakdown size and the
\* denominator of the percentage count that name once, and every other
\* entry is the factor's own score or the qualitative value supplied.
C24_QualitativeShadowsFactor ==
    (Returned /\ \E i \in DOMAIN Ql : Ql[i].k \in ScoredKeySet) =>
        /\ \A i \in DOMAIN Ql :
              Ql[i].k \in ScoredKeySet =>
                  /\ Cardinality(Entries(result.factor_scores, Ql[i].k)) = 1
                  /\ DictGet(result.factor_scores, Ql[i].k) = Ql[i].v
        /\ \A i, j \in DOMAIN result.factor_scores :
              result.factor_scores[i].k = result.factor_scores[j].k => i = j
        /\ DictKeys(result.factor_scores) = ScoredKeySet \cup DictKeys(Ql)
        /\ Len(result.factor_scores) = Cardinality(ScoredKeySet \cup DictKeys(Ql))
        /\ result.max_possible_score = 5 * Cardinality(ScoredKeySet \cup DictKeys(Ql))
        /\ \A key \in ScoredKeySet \ DictKeys(Ql) :
              DictGet(result.factor_scores, key) = FactorScore(Q, key)
        /\ \A i \in DOMAIN Ql :
              Ql[i].k \notin ScoredKeySet =>
                  DictGet(result.factor_scores, Ql[i].k) = Ql[i].v

\* Scored with a qualitative pe_ratio that differs from the score of the
\* pe_ratio metric, next to a qualitative entry of another name.
C24_Witness ==
    /\ Returned
    /\ DictHas(Ql, "pe_ratio")
    /\ DictGet(Ql, "pe_ratio") # FactorScore(Q, "pe_ratio")
    /\ DictGet(result.factor_scores, "pe_ratio") = DictGet(Ql, "pe_ratio")
    /\ FreeEntries(Ql) # {}

\* C25: a present negative value of de_ratio, pe_ratio, peg_ratio, pb_ratio,
\* ev_ebitda, market_cap or stock_price scores the top tier, 5.
C25_NegativeScoresTop ==
    Returned =>
        \A key \in LowerIsBetter :
            (Q[key].t = "ninf" \/ (Q[key].t = "num" /\ Q[key].m < 0)) =>
                /\ FactorScore(Q, key) = 5
                /\ DictGet(result.factor_scores, key) = EntryFor(key, 5)

\* Scored with a negative pe_ratio that no qualitative entry replaces.
C25_Witness ==
    /\ Returned
    /\ Q["pe_ratio"] = Num(-8, 0)
    /\ ~DictHas(Ql, "pe_ratio")
    /\ DictGet(result.factor_scores, "pe_ratio") = 5

\* The metrics under the 21 scored names.
ScoredPart(quantitative) == [k \in ScoredKeySet |-> quantitative[k]]

\* C26: two calls whose metrics agree on the 21 scored names and whose
\* qualitative mappings are equal return the same total_score,
\* percentage_score and breakdown, whatever the other keys hold, and no key
\* of the metrics that is not scored appears in a breakdown unless it is a
\* qualitative key.
C26_ScoredNamesOnly ==
    /\ \A i, j \in DOMAIN calls :
          (/\ ScoredPart(StockQuantitative(calls[i].input)) =
                  ScoredPart(StockQuantitative(calls[j].input))
           /\ StockQualitative(calls[i].input) = StockQualitative(calls[j].input)) =>
              calls[i].output = calls[j].output
    /\ \A i \in DOMAIN calls :
          DictKeys(calls[i].output.factor_scores) \cap (AllKeys \ ScoredKeySet)
              \subseteq DictKeys(StockQualitative(calls[i].input))

\* Two calls have returned whose metrics agree on the scored names and
\* differ in other keys, a list and a string among them.
C26_Witness ==
    \E i, j \in DOMAIN calls :
        /\ ScoredPart(StockQuantitative(calls[i].input)) =
              ScoredPart(StockQuantitative(calls[j].input))
        /\ StockQualitative(calls[i].input) = StockQualitative(calls[j].input)
        /\ StockQuantitative(calls[i].input)["quarterly_revenue"] = List
        /\ StockQuantitative(calls[i].input)["gross_margin"] = Str
        /\ StockQuantitative(calls[j].input)["quarterly_revenue"] = Missing
        /\ calls[i].output.state = "ok"
        /\ calls[j].output.state = "ok"

\* ------------------------------------------------- scanner and converter

\* A column name is a sequence of tokens: words, the blank " " and "(s)";
\* no word ends in "(s)".  A cell is a record [c, v], c naming its kind.

\* symbols = symbols_df["SYMBOL"].tolist()
symbols == [n \in 1 .. MaxSymbols |-> n]

\* ticker = f"{symbol}.NS"
Ticker(symbol) == [symbol |-> symbol, suffix |-> ".NS"]

\* The keys of a metrics mapping in the order the skeleton makes them;
\* a fetcher that adds cash_flow_growth adds it last.
MetricOrder ==
    << "market_cap", "stock_price", "eps", "eps_growth_5y", "roe", "roce",
       "operating_margin", "net_margin", "gross_margin", "de_ratio",
       "interest_coverage", "current_ratio", "quick_ratio", "free_cash_flow",
       "cash_conversion_ratio", "revenue", "revenue_growth_5y", "profit",
       "profit_growth_5y", "operating_leverage", "pe_ratio", "peg_ratio",
       "pb_ratio", "ev_ebitda", "beta", "dividend_yield", "liquidity",
       "promoter_holding", "promoter_holding_growth", "quarterly_revenue",
       "quarterly_profit", "quarterly_eps", "quarterly_revenue_growth",
       "quarterly_profit_growth", "quarterly_eps_growth", "quarterly_de_ratio",
       "quarterly_current_ratio", "quarterly_interest_coverage",
       "cash_flow_growth" >>

\* metrics.items()
MetricItems(metrics) ==
    LET items == [i \in DOMAIN MetricOrder |->
                    [k |-> <<MetricOrder[i]>>,
                     v |-> [c |-> "metric", v |-> metrics[MetricOrder[i]]]]]
        Present(item) == item.v.v.t # "missing"
    IN  SelectSeq(items, Present)

\* Variant: the breakdown is merged under the factor names themselves.
Suffixed_none(key) == <<key>>

\* f"{key} (s)"
Suffixed(key) == <<key, " ", "(s)">>

\* {f"{key} (s)": v for key, v in breakdown.items()}
BreakdownWithSuffix(breakdown) ==
    [i \in DOMAIN breakdown |->
        [k |-> Suffixed(breakdown[i].k), v |-> [c |-> "score", v |-> breakdown[i].v]]]

\* d.update(items): a key d holds keeps its place and takes the new value,
\* a new key is added at the end.
Update(d, items) ==
    LET pairs == d \o items
        places == [i \in DOMAIN pairs |-> [i |-> i, k |-> pairs[i].k]]
        IsFirst(p) == \A j \in 1 .. (p.i - 1) : pairs[j].k # p.k
        firsts == SelectSeq(places, IsFirst)
        Last(key) ==
            pairs[CHOOSE i \in DOMAIN pairs :
                    /\ pairs[i].k = key
                    /\ \A j \in (i + 1) .. Len(pairs) : pairs[j].k # key].v
    IN  [n \in DOMAIN firsts |-> [k |-> firsts[n].k, v |-> Last(firsts[n].k)]]

\* market_cap / 10**7
Crore(market_cap) == [market_cap EXCEPT !.e = @ - 7]

\* price < 100 and market_cap < 500 * 10**7 and promoter_holding and
\* promoter_holding > 50: the first operand that is false, or the last one.
IsPennyStock(price, market_cap, metrics) ==
    LET promoter_holding ==
            IF metrics["promoter_holding"].t = "missing" THEN Zero
            ELSE metrics["promoter_holding"]
    IN  IF ~LT(price, Num(100, 0)) THEN [c |-> "bool", v |-> FALSE]
        ELSE IF ~LT(market_cap, Num(500, 7)) THEN [c |-> "bool", v |-> FALSE]
        ELSE IF promoter_holding.t = "None" \/ EQ(promoter_holding, Zero)
             THEN [c |-> "metric", v |-> promoter_holding]
        ELSE [c |-> "bool", v |-> GT(promoter_holding, Num(50, 0))]

\* result_data of one symbol, r being what the scoring call returned.
ResultData(ticker, price, market_cap, metrics, r) ==
    Update(
        Update(
            << [k |-> <<"Symbol">>, v |-> [c |-> "ticker", v |-> ticker]],
               [k |-> <<"Price">>, v |-> [c |-> "float", v |-> price]],
               [k |-> <<"Market Cap", " ", "(Cr)">>,
                v |-> [c |-> "float", v |-> Crore(market_cap)]],
               [k |-> <<"Score", " ", "(%)">>,
                v |-> [c |-> "ratio", v |-> r.percentage_score]],
               [k |-> <<"Penny_stock">>, v |-> IsPennyStock(price, market_cap, metrics)] >>,
            MetricItems(metrics)),
        BreakdownWithSuffix(r.factor_scores))

\* error_data = {"Symbol": ticker, "Error": str(e)}
ErrorData(ticker, cause) ==
    << [k |-> <<"Symbol">>, v |-> [c |-> "ticker", v |-> ticker]],
       [k |-> <<"Error">>, v |-> [c |-> "error", v |-> cause]] >>

RECURSIVE KeysOf(_)
\* The keys of the records, one record after another.
KeysOf(records) ==
    IF records = <<>> THEN <<>>
    ELSE KeysOf(SubSeq(records, 1, Len(records) - 1)) \o
             [i \in DOMAIN records[Len(records)] |->
                 [k |-> records[Len(records)][i].k, v |-> 0]]

\* pd.DataFrame(records).columns: every key, in the order first met.
Columns(records) ==
    LET keys == Update(<<>>, KeysOf(records))
    IN  [i \in DOMAIN keys |-> keys[i].k]

EmptyText == [text |-> "empty", v |-> [c |-> "missing", v |-> 0]]

\* The text to_csv writes for a cell: nothing for a missing value, None or
\* NaN; digits for a number; other text for the rest.
CsvText(cell) ==
    IF cell.c = "metric"
    THEN IF cell.v.t \in {"nan", "None"} THEN EmptyText
         ELSE IF cell.v.t \in {"num", "inf", "ninf"} THEN [text |-> "number", v |-> cell]
         ELSE [text |-> "string", v |-> cell]
    ELSE IF cell.c = "float"
    THEN IF cell.v.t \in {"nan", "None"} THEN EmptyText
         ELSE [text |-> "number", v |-> cell]
    ELSE IF cell.c \in {"score", "ratio"} THEN [text |-> "number", v |-> cell]
    ELSE [text |-> "string", v |-> cell]

\* output_df.to_csv(output_filename, index=False)
ToCsv(records) ==
    LET headers == Columns(records)
    IN  [written |-> TRUE,
         headers |-> headers,
         rows |-> [r \in DOMAIN records |->
                      [i \in DOMAIN headers |->
                          IF DictHas(records[r], headers[i])
                          THEN CsvText(DictGet(records[r], headers[i]))
                          ELSE EmptyText]]]

\* The file with the column 'Conclusion' a reader of the scores has added.
WithConclusion(file) ==
    [file EXCEPT !.headers = Append(@, <<"Conclusion">>),
                 !.rows = [r \in DOMAIN @ |->
                              Append(@[r], [text |-> "string",
                                            v |-> [c |-> "note", v |-> r]])]]

RECURSIVE Strip(_)
\* header.strip()
Strip(header) ==
    IF header = <<>> THEN header
    ELSE IF header[1] = " " THEN Strip(Tail(header))
    ELSE IF header[Len(header)] = " " THEN Strip(SubSeq(header, 1, Len(header) - 1))
    ELSE header

\* header.endswith('(s)')
EndsWithScoreMark(header) == header # <<>> /\ header[Len(header)] = "(s)"

\* headers.index(col): the first position of col.
HeaderIndex(headers, col) ==
    CHOOSE i \in DOMAIN headers :
        headers[i] = col /\ \A j \in DOMAIN headers : headers[j] = col => i <= j

\* indices_to_remove, from columns_to_remove = ['Conclusion'] and the
\* headers that end in '(s)' once stripped.
IndicesToRemove(headers) ==
    LET columns_to_remove ==
            {<<"Conclusion">>} \cup
                {headers[i] : i \in {j \in DOMAIN headers :
                                        EndsWithScoreMark(Strip(headers[j]))}}
    IN  {HeaderIndex(headers, col) :
            col \in {c \in columns_to_remove : \E i \in DOMAIN headers : headers[i] = c}}

\* [x for i, x in enumerate(row) if i not in indices_to_remove]
Filtered(row, indices) ==
    LET places == [i \in DOMAIN row |-> [i |-> i, x |-> row[i]]]
        Kept(p) == p.i \notin indices
        kept == SelectSeq(places, Kept)
    IN  [n \in DOMAIN kept |-> kept[n].x]

\* float(text), or the text itself when that raises ValueError.
ParseCell(text) ==
    IF text.text = "number" THEN [json |-> "float", v |-> text.v]
    ELSE [json |-> "str", v |-> text]

\* row_data, after row_data[header] = ... for each filtered header.
RowData(filtered_headers, filtered_row) ==
    Update(<<>>,
           [i \in DOMAIN filtered_headers |->
               [k |-> filtered_headers[i],
                v |-> IF i <= Len(filtered_row) THEN ParseCell(filtered_row[i])
                      ELSE [json |-> "null", v |-> EmptyText]]])

\* convert_csv_to_json(csv_file_path, json_file_path): the data dumped.
convert_csv_to_json(file) ==
    LET indices_to_remove == IndicesToRemove(file.headers)
        filtered_headers == Filtered(file.headers, indices_to_remove)
    IN  [written |-> TRUE,
         headers |-> filtered_headers,
         rows |-> [r \in DOMAIN file.rows |->
                      RowData(filtered_headers,
                              Filtered(file.rows[r], indices_to_remove))]]

\* What yf.Ticker(ticker).info gives for the price and the market cap.
ScanPrices == {None, Num(50, 0)}

ScanCaps == {None, Num(2, 9)}

\* What fetch_quantitative_data returns as metrics: the skeleton as made,
\* the skeleton filled, and a record with a string under a scored name.
ScanMetrics ==
    { create_quantitative_skeleton,
      [k \in AllKeys |->
          IF ExampleWithExtras[k].t # "missing" THEN ExampleWithExtras[k]
          ELSE create_quantitative_skeleton[k]],
      [create_quantitative_skeleton EXCEPT !["peg_ratio"] = Str] }

\* stock_for_scoring = {"quantitative": metrics, "qualitative": {}}
StockForScoring(metrics) == Stock(Both, metrics, <<>>)

ScanInit ==
    /\ pc = "scan"
    /\ pos = 0
    /\ penny_stocks_results = <<>>
    /\ csv = NoFile
    /\ json = NoFile
    /\ stock = Stock({}, EmptyMetrics, <<>>)
    /\ result = NoResult
    /\ ops = 0
    /\ calls = <<>>
    /\ task = <<>>
    /\ heap = <<>>

\* A turn of the loop that ends at `continue`: price or market cap is None.
ScanSkip ==
    /\ pc = "scan"
    /\ pos < Len(symbols)
    /\ \E price \in ScanPrices : \E market_cap \in ScanCaps :
          price.t = "None" \/ market_cap.t = "None"
    /\ pos' = pos + 1
    /\ UNCHANGED <<pc, penny_stocks_results, csv, json, stock, result, ops, calls,
                   taskvars>>

\* Variant: the exception leaves the loop and run_scanner with it.
ScanError_uncaught ==
    /\ pc = "scan"
    /\ pos < Len(symbols)
    /\ pc' = "aborted"
    /\ UNCHANGED <<pos, penny_stocks_results, csv, json, stock, result, ops, calls,
                   taskvars>>

\* A turn of the loop that ends in the except clause: the info request, the
\* fetcher or the scoring call has raised.
ScanError ==
    /\ pc = "scan"
    /\ pos < Len(symbols)
    /\ \E cause \in {"info", "fetch", "score"} :
          /\ cause = "score" =>
                \E metrics \in ScanMetrics :
                    multibagger_score_two_dim(StockForScoring(metrics)).state = "error"
          /\ penny_stocks_results' =
                Append(penny_stocks_results, ErrorData(Ticker(symbols[pos + 1]), cause))
    /\ pos' = pos + 1
    /\ UNCHANGED <<pc, csv, json, stock, result, ops, calls, taskvars>>

\* A turn of the loop that reaches penny_stocks_results.append(result_data).
ScanAppend ==
    /\ pc = "scan"
    /\ pos < Len(symbols)
    /\ \E price \in ScanPrices : \E market_cap \in ScanCaps : \E metrics \in ScanMetrics :
          LET r == multibagger_score_two_dim(StockForScoring(metrics))
          IN  /\ price.t # "None"
              /\ market_cap.t # "None"
              /\ r.state = "ok"
              /\ penny_stocks_results' =
                    Append(penny_stocks_results,
                           ResultData(Ticker(symbols[pos + 1]), price, market_cap,
                                      metrics, r))
    /\ pos' = pos + 1
    /\ UNCHANGED <<pc, csv, json, stock, result, ops, calls, taskvars>>

\* After the loop: the list is saved when it is not empty.
Save ==
    /\ pc = "scan"
    /\ pos = Len(symbols)
    /\ csv' = IF penny_stocks_results # <<>> THEN ToCsv(penny_stocks_results) ELSE NoFile
    /\ pc' = "saved"
    /\ UNCHANGED <<pos, penny_stocks_results, json, stock, result, ops, calls, taskvars>>

\* The saved file gets the column 'Conclusion' before it is converted.
Annotate ==
    /\ pc = "saved"
    /\ csv.written
    /\ csv' = WithConclusion(csv)
    /\ pc' = "annotated"
    /\ UNCHANGED <<pos, penny_stocks_results, json, stock, result, ops, calls, taskvars>>

\* convert_csv_to_json(csv_file, json_file)
Convert ==
    /\ pc \in {"saved", "annotated"}
    /\ csv.written
    /\ json' = convert_csv_to_json(csv)
    /\ pc' = "converted"
    /\ UNCHANGED <<pos, penny_stocks_results, csv, stock, result, ops, calls, taskvars>>

ScanNext ==
    \/ ScanSkip
    \/ ScanError
    \/ ScanAppend
    \/ Save
    \/ Annotate
    \/ Convert

SpecScan == ScanInit /\ [][ScanNext]_vars

\* C23: a result record holds every raw metric k of the fetched metrics under
\* the column k and every breakdown entry k -> v under the column 'k (s)', so
\* no score has taken the place of a raw metric; and the converted file has
\* the headers of the CSV file without the ones that end in '(s)' and without
\* 'Conclusion', in the order of the CSV file, each row keeping the cells of
\* the kept columns.
C23_SuffixedScoreColumns ==
    LET Dropped(header) ==
            \/ header = <<"Conclusion">>
            \/ \E i \in DOMAIN header :
                  /\ header[i] = "(s)"
                  /\ \A j \in (i + 1) .. Len(header) : header[j] = " "
        Kept(header) == ~Dropped(header)
    IN  /\ \A n \in DOMAIN penny_stocks_results :
              LET rec == penny_stocks_results[n]
              IN  DictHas(rec, <<"Score", " ", "(%)">>) =>
                    \E m \in ScanMetrics :
                        LET r == multibagger_score_two_dim(StockForScoring(m))
                        IN  /\ r.state = "ok"
                            /\ \A k \in AllKeys :
                                  m[k].t # "missing" =>
                                      /\ DictHas(rec, <<k>>)
                                      /\ DictGet(rec, <<k>>).c = "metric"
                                      /\ DictGet(rec, <<k>>).v = m[k]
                            /\ \A i \in DOMAIN r.factor_scores :
                                  LET column == <<r.factor_scores[i].k, " ", "(s)">>
                                  IN  /\ DictHas(rec, column)
                                      /\ DictGet(rec, column).c = "score"
                                      /\ DictGet(rec, column).v = r.factor_scores[i].v
        /\ pc = "converted" =>
              /\ json.headers = SelectSeq(csv.headers, Kept)
              /\ Len(json.rows) = Len(csv.rows)
              /\ \A r \in DOMAIN json.rows :
                    /\ [i \in DOMAIN json.rows[r] |-> json.rows[r][i].k] = json.headers
                    /\ \A i \in DOMAIN csv.headers :
                          Kept(csv.headers[i]) =>
                              DictGet(json.rows[r], csv.headers[i]) =
                                  ParseCell(csv.rows[r][i])

\* A converted file whose CSV file had a Conclusion column, a row of scores
\* with roe under 'roe' and its score under 'roe (s)', and a row of an error.
C23_Witness ==
    /\ pc = "converted"
    /\ \E i \in DOMAIN csv.headers : csv.headers[i] = <<"Conclusion">>
    /\ \E i \in DOMAIN json.headers : json.headers[i] = <<"roe">>
    /\ \E n \in DOMAIN penny_stocks_results :
          /\ DictHas(penny_stocks_results[n], <<"roe", " ", "(s)">>)
          /\ DictGet(penny_stocks_results[n], <<"roe", " ", "(s)">>).v = 5
          /\ DictHas(penny_stocks_results[n], <<"roe">>)
          /\ DictGet(penny_stocks_results[n], <<"roe">>).v.t = "num"
    /\ \E n \in DOMAIN penny_stocks_results :
          DictHas(penny_stocks_results[n], <<"Error">>)

\* The loop of run_scanner with the interpreter taking the next turn of the
\* loop for as long as a symbol is left.
SpecScanFair == SpecScan /\ WF_vars(ScanSkip \/ ScanError \/ ScanAppend)

\* The symbol a record was made for.
SymbolOf(rec) == DictGet(rec, <<"Symbol">>).v.symbol

\* A record with the keys of error_data and no other.
IsErrorRecord(rec) == [i \in DOMAIN rec |-> rec[i].k] = << <<"Symbol">>, <<"Error">> >>

\* A record with the keys result_data starts with.
IsResultRecord(rec) ==
    /\ DictHas(rec, <<"Symbol">>)
    /\ DictHas(rec, <<"Score", " ", "(%)">>)
    /\ ~DictHas(rec, <<"Error">>)

\* C27: the loop takes the symbols one at a time in list order; a turn of the
\* loop adds no record, or one result record, or one error record that holds
\* Symbol and Error only, for the symbol of that turn, and the loop goes on;
\* the loop is never left before the last symbol, and it comes to its end,
\* where the save step is; the list holds at most one record per symbol, in symbol order.
C27_OneOutcomePerSymbol ==
    /\ [](/\ pc \in {"scan", "saved", "annotated", "converted"}
          /\ pos \in 0 .. Len(symbols)
          /\ pc # "scan" => pos = Len(symbols)
          /\ Len(penny_stocks_results) <= pos
          /\ \A n \in DOMAIN penny_stocks_results :
                /\ \E i \in 1 .. pos : symbols[i] = SymbolOf(penny_stocks_results[n])
                /\ \A o \in 1 .. (n - 1) : \A i, j \in DOMAIN symbols :
                      /\ symbols[i] = SymbolOf(penny_stocks_results[o])
                      /\ symbols[j] = SymbolOf(penny_stocks_results[n])
                      => i < j)
    /\ [][/\ pos' \in {pos, pos + 1}
          /\ penny_stocks_results' # penny_stocks_results => pos' = pos + 1
          /\ pos' = pos + 1 =>
                /\ pc = "scan"
                /\ pc' = "scan"
                /\ \/ penny_stocks_results' = penny_stocks_results
                   \/ /\ Len(penny_stocks_results') = Len(penny_stocks_results) + 1
                      /\ SubSeq(penny_stocks_results', 1, Len(penny_stocks_results)) =
                             penny_stocks_results
                      /\ LET rec == penny_stocks_results'[Len(penny_stocks_results')]
                         IN  /\ IsErrorRecord(rec) \/ IsResultRecord(rec)
                             /\ DictGet(rec, <<"Symbol">>).v =
                                    [symbol |-> symbols[pos + 1], suffix |-> ".NS"]]_vars
    /\ <>(pos = Len(symbols))

\* The scan is over with an error record, a result record and a symbol that
\* was skipped.
C27_Witness ==
    /\ pc = "saved"
    /\ pos = Len(symbols)
    /\ Len(penny_stocks_results) < pos
    /\ \E n \in DOMAIN penny_stocks_results :
          DictHas(penny_stocks_results[n], <<"Error">>)
    /\ \E n \in DOMAIN penny_stocks_results :
          DictHas(penny_stocks_results[n], <<"Penny_stock">>)

====
